---- MODULE Spec2Model ----
(***************************************************************************)
(* Validation and decoding of Telegram Mini App init data                  *)
(* (src/src/lib.rs).                                                       *)
(*                                                                         *)
(* Strings and byte buffers are sequences of byte values (ASCII codes).    *)
(* The payloads drawn below are ASCII after percent-decoding, where        *)
(* String::from_utf8_lossy is the identity.                                *)
(***************************************************************************)
EXTENDS Integers, Sequences, FiniteSets, TLC

VARIABLES
    token,   \* the bot token given to new
    raw,     \* the payload given to new
    pc,      \* "start" before new is called, "returned" after
    result,  \* what new returned
    locals,  \* hash and data_check_string of that call, when it built them
    clock,   \* the system clock, in ticks of 1/SubSec second since the epoch
    calls,   \* the last two calls of elapsed_since_auth: the clock read, the value returned
    probe    \* a second call of new, on a payload related to raw

vars == <<token, raw, pc, result, locals, clock, calls, probe>>

(***************************************************************************)
(* Characters                                                              *)
(***************************************************************************)
\* the printable ASCII characters: codes 32 (space) to 95 (_), and 97 (a) to 126 (~)
AsciiLow ==
    " !\"#$%&'()*+,-./0123456789:;<=>?@ABCDEFGHIJKLMNOPQRSTUVWXYZ[\\]^_"

AsciiHigh == "abcdefghijklmnopqrstuvwxyz{|}~"

Code(c) ==
    IF \E i \in 1..Len(AsciiLow) : SubSeq(AsciiLow, i, i) = c
    THEN 31 + (CHOOSE i \in 1..Len(AsciiLow) : SubSeq(AsciiLow, i, i) = c)
    ELSE 96 + (CHOOSE i \in 1..Len(AsciiHigh) : SubSeq(AsciiHigh, i, i) = c)

\* the bytes of a string literal
Str(s) == [i \in 1..Len(s) |-> Code(SubSeq(s, i, i))]

Ch ==
    [amp |-> Code("&"), eq |-> Code("="), plus |-> Code("+"), pct |-> Code("%"),
     sp |-> 32, nl |-> 10, tab |-> 9, cr |-> 13, quote |-> 34,
     lbrace |-> Code("{"), rbrace |-> Code("}"), lbrack |-> Code("["),
     rbrack |-> Code("]"), colon |-> Code(":"), comma |-> Code(","),
     minus |-> Code("-"), dot |-> Code("."), bslash |-> 92, slash |-> Code("/"),
     zero |-> Code("0")]

K_hash == Str("hash")
K_user == Str("user")
K_receiver == Str("receiver")
K_auth_date == Str("auth_date")
WebAppData == Str("WebAppData")

IsDigit(c) == c >= 48 /\ c <= 57

\* value of a hexadecimal digit of either case, -1 for any other byte
HexVal(c) ==
    IF c >= 48 /\ c <= 57 THEN c - 48
    ELSE IF c >= 97 /\ c <= 102 THEN c - 87
    ELSE IF c >= 65 /\ c <= 70 THEN c - 55
    ELSE -1

\* position of the first c in s, 0 when there is none
IndexOf(s, c) ==
    LET hits == {i \in 1..Len(s) : s[i] = c}
    IN  IF hits = {} THEN 0 ELSE CHOOSE i \in hits : \A j \in hits : i <= j

\* the order of str (and of byte slices): lexicographic by byte
RECURSIVE StrLess(_, _)
StrLess(a, b) ==
    IF b = <<>> THEN FALSE
    ELSE IF a = <<>> THEN TRUE
    ELSE IF a[1] # b[1] THEN a[1] < b[1]
    ELSE StrLess(Tail(a), Tail(b))

(***************************************************************************)
(* form_urlencoded::parse(raw): the pairs of the payload, in input order   *)
(***************************************************************************)
ReplacePlus(s) == [i \in 1..Len(s) |-> IF s[i] = Ch.plus THEN Ch.sp ELSE s[i]]

\* percent_decode: "%" and two hexadecimal digits are one byte; any other "%"
\* stands for itself.  The digits of an escape are never "%", so escapes do not
\* overlap and each position is read on its own.
IsEscape(s, i) ==
    i >= 1 /\ i + 2 <= Len(s) /\ s[i] = Ch.pct /\ HexVal(s[i + 1]) >= 0 /\ HexVal(s[i + 2]) >= 0

PercentDecode(s) ==
    LET starts == SelectSeq([i \in 1..Len(s) |-> i],
                            LAMBDA i : ~IsEscape(s, i - 1) /\ ~IsEscape(s, i - 2))
    IN  [n \in 1..Len(starts) |->
           IF IsEscape(s, starts[n])
           THEN 16 * HexVal(s[starts[n] + 1]) + HexVal(s[starts[n] + 2])
           ELSE s[starts[n]]]

UrlDecode(s) == PercentDecode(ReplacePlus(s))

RECURSIVE FormParse(_)
FormParse(input) ==
    IF input = <<>> THEN <<>>
    ELSE LET i == IndexOf(input, Ch.amp)
             sequence == IF i = 0 THEN input ELSE SubSeq(input, 1, i - 1)
             rest == IF i = 0 THEN <<>> ELSE SubSeq(input, i + 1, Len(input))
             j == IndexOf(sequence, Ch.eq)
             name == IF j = 0 THEN sequence ELSE SubSeq(sequence, 1, j - 1)
             value == IF j = 0 THEN <<>> ELSE SubSeq(sequence, j + 1, Len(sequence))
         IN  IF sequence = <<>> THEN FormParse(rest)
             ELSE <<[k |-> UrlDecode(name), v |-> UrlDecode(value)]>> \o FormParse(rest)

(***************************************************************************)
(* BTreeMap<str, str>: a sequence of entries, strictly ascending by key    *)
(***************************************************************************)
MapHas(m, key) == \E i \in 1..Len(m) : m[i].k = key

MapGet(m, key) == (CHOOSE e \in {m[i] : i \in 1..Len(m)} : e.k = key).v

MapRemove(m, key) == SelectSeq(m, LAMBDA e : e.k # key)

\* a map that keeps the order of insertion
InsertUnsorted(m, e) ==
    IF MapHas(m, e.k) THEN [i \in 1..Len(m) |-> IF m[i].k = e.k THEN e ELSE m[i]]
    ELSE Append(m, e)

\* a map that keeps the first value of a key
InsertKeepFirst(m, e) ==
    IF MapHas(m, e.k) THEN m
    ELSE SelectSeq(m, LAMBDA x : StrLess(x.k, e.k)) \o <<e>>
         \o SelectSeq(m, LAMBDA x : StrLess(e.k, x.k))

\* insert: the value of an equal key is replaced, a new key goes to its place
MapInsert(m, e) ==
    LET below == SelectSeq(m, LAMBDA x : StrLess(x.k, e.k))
        above == SelectSeq(m, LAMBDA x : StrLess(e.k, x.k))
    IN  below \o <<e>> \o above

RECURSIVE MapCollectFrom(_, _)
MapCollectFrom(m, pairs) ==
    IF pairs = <<>> THEN m
    ELSE MapCollectFrom(MapInsert(m, Head(pairs)), Tail(pairs))

MapCollect(pairs) == MapCollectFrom(<<>>, pairs)

(***************************************************************************)
(* The data-check string of the remaining entries (lines 50-58)            *)
(***************************************************************************)
RECURSIVE DataCheckFrom(_, _)
DataCheckFrom(acc, m) ==
    IF m = <<>> THEN acc
    ELSE LET sep == IF acc # <<>> THEN <<Ch.nl>> ELSE <<>>
         IN  DataCheckFrom(acc \o sep \o Head(m).k \o <<Ch.eq>> \o Head(m).v, Tail(m))

\* a line feed before every line, the first too
LineFeedBeforeEveryLine(m) ==
    IF m = <<>> THEN <<>> ELSE <<Ch.nl>> \o DataCheckFrom(<<>>, m)

DataCheckString(m) == DataCheckFrom(<<>>, m)

(***************************************************************************)
(* hmac_sha256::HMAC::mac(input, k).  The keyed hash is idealised: the     *)
(* digest is a byte string that determines the key and the input, so two   *)
(* digests are equal only for equal keys and equal inputs (no collisions). *)
(***************************************************************************)
HMAC(input, k) == <<Len(k)>> \o k \o input

\* format!("{byte:02x}") of every byte
HexDigit(n) == IF n < 10 THEN 48 + n ELSE 87 + n

hex(bytes) ==
    [i \in 1..2 * Len(bytes) |->
       IF i % 2 = 1 THEN HexDigit(bytes[(i + 1) \div 2] \div 16)
       ELSE HexDigit(bytes[i \div 2] % 16)]

\* the token as the key and "WebAppData" as the message
SecretKeyedByToken(tok) == HMAC(WebAppData, tok)

SecretKey(tok) == HMAC(tok, WebAppData)

ActualHash(tok, data_check_string) == HMAC(data_check_string, SecretKey(tok))

(***************************************************************************)
(* serde_json::from_str: a JSON text read into a value.                    *)
(* A parse step returns [ok, val, rest]: the value read and the bytes left.*)
(***************************************************************************)
Fail == [ok |-> FALSE, val |-> <<>>, rest |-> <<>>]

Got(v, r) == [ok |-> TRUE, val |-> v, rest |-> r]

IsWs(c) == c \in {Ch.sp, Ch.tab, Ch.nl, Ch.cr}

RECURSIVE SkipWs(_)
SkipWs(s) == IF s # <<>> /\ IsWs(s[1]) THEN SkipWs(Tail(s)) ELSE s

RECURSIVE LeadingDigits(_)
LeadingDigits(s) == IF s # <<>> /\ IsDigit(s[1]) THEN 1 + LeadingDigits(Tail(s)) ELSE 0

Drop(s, n) == SubSeq(s, n + 1, Len(s))

StartsWith(s, p) == Len(s) >= Len(p) /\ SubSeq(s, 1, Len(p)) = p

\* the character a simple escape stands for, -1 when the escape is unknown
\* (\uXXXX escapes are outside the payloads drawn and are not read)
Unescape(c) ==
    IF c \in {Ch.quote, Ch.bslash, Ch.slash} THEN c
    ELSE IF c = Code("n") THEN Ch.nl
    ELSE IF c = Code("t") THEN Ch.tab
    ELSE IF c = Code("r") THEN Ch.cr
    ELSE IF c = Code("b") THEN 8
    ELSE IF c = Code("f") THEN 12
    ELSE -1

\* the rest of a string after its opening quote
RECURSIVE StrBody(_, _)
StrBody(s, acc) ==
    IF s = <<>> THEN Fail
    ELSE IF s[1] = Ch.quote THEN Got([t |-> "str", s |-> acc], Tail(s))
    ELSE IF s[1] = Ch.bslash
         THEN IF Len(s) >= 2 /\ Unescape(s[2]) >= 0
              THEN StrBody(Drop(s, 2), Append(acc, Unescape(s[2])))
              ELSE Fail
    ELSE IF s[1] < 32 THEN Fail
    ELSE StrBody(Tail(s), Append(acc, s[1]))

ParseString(s) == IF s # <<>> /\ s[1] = Ch.quote THEN StrBody(Tail(s), <<>>) ELSE Fail

\* a number: -?(0|[1-9][0-9]*)(.[0-9]+)?([eE][+-]?[0-9]+)?, read part by part;
\* isInt: it has neither a fraction nor an exponent
Num(neg, digits, isInt, rest) ==
    Got([t |-> "num", int |-> isInt, neg |-> neg, digits |-> digits], rest)

ExpDigits(neg, digits, d) ==
    IF LeadingDigits(d) = 0 THEN Fail
    ELSE Num(neg, digits, FALSE, Drop(d, LeadingDigits(d)))

ScanExp(neg, digits, isInt, c) ==
    IF c # <<>> /\ c[1] \in {Code("e"), Code("E")}
    THEN ExpDigits(neg, digits,
                   IF Len(c) >= 2 /\ c[2] \in {Ch.plus, Ch.minus} THEN Drop(c, 2) ELSE Tail(c))
    ELSE Num(neg, digits, isInt, c)

ScanFrac(neg, digits, b) ==
    IF b # <<>> /\ b[1] = Ch.dot
    THEN IF LeadingDigits(Tail(b)) = 0 THEN Fail
         ELSE ScanExp(neg, digits, FALSE, Drop(b, LeadingDigits(Tail(b)) + 1))
    ELSE ScanExp(neg, digits, TRUE, b)

ScanInt(neg, a) ==
    IF LeadingDigits(a) = 0 \/ (a[1] = Ch.zero /\ LeadingDigits(a) > 1) THEN Fail
    ELSE ScanFrac(neg, SubSeq(a, 1, LeadingDigits(a)), Drop(a, LeadingDigits(a)))

ParseNumber(s) == ScanInt(s[1] = Ch.minus, IF s[1] = Ch.minus THEN Tail(s) ELSE s)

RECURSIVE ParseValue(_)
RECURSIVE ParseElements(_, _)
RECURSIVE ParseMembers(_, _)

\* after an element: ',' and the next one, or ']'
ElementSep(val, r, acc) ==
    IF r = <<>> THEN Fail
    ELSE IF r[1] = Ch.comma THEN ParseElements(Tail(r), Append(acc, val))
    ELSE IF r[1] = Ch.rbrack THEN Got([t |-> "arr", items |-> Append(acc, val)], Tail(r))
    ELSE Fail

AfterElement(v, acc) == IF v.ok THEN ElementSep(v.val, SkipWs(v.rest), acc) ELSE Fail

\* after '[' or ',': a value, then ',' or ']'
ParseElements(s, acc) == AfterElement(ParseValue(SkipWs(s)), acc)

\* after a member: ',' and the next one, or '}'
MemberSep(member, r, acc) ==
    IF r = <<>> THEN Fail
    ELSE IF r[1] = Ch.comma THEN ParseMembers(Tail(r), Append(acc, member))
    ELSE IF r[1] = Ch.rbrace THEN Got([t |-> "obj", members |-> Append(acc, member)], Tail(r))
    ELSE Fail

AfterMember(key, v, acc) ==
    IF v.ok THEN MemberSep([k |-> key, v |-> v.val], SkipWs(v.rest), acc) ELSE Fail

KeyColon(key, c, acc) ==
    IF c # <<>> /\ c[1] = Ch.colon THEN AfterMember(key, ParseValue(SkipWs(Tail(c))), acc)
    ELSE Fail

AfterKey(key, acc) == IF key.ok THEN KeyColon(key.val.s, SkipWs(key.rest), acc) ELSE Fail

\* after '{' or ',': a key, ':', a value, then ',' or '}'
ParseMembers(s, acc) == AfterKey(ParseString(SkipWs(s)), acc)

ParseValue(s) ==
    IF s = <<>> THEN Fail
    ELSE IF s[1] = Ch.quote THEN ParseString(s)
    ELSE IF s[1] = Ch.lbrace
         THEN LET r == SkipWs(Tail(s))
              IN  IF r # <<>> /\ r[1] = Ch.rbrace
                  THEN Got([t |-> "obj", members |-> <<>>], Tail(r))
                  ELSE ParseMembers(r, <<>>)
    ELSE IF s[1] = Ch.lbrack
         THEN LET r == SkipWs(Tail(s))
              IN  IF r # <<>> /\ r[1] = Ch.rbrack
                  THEN Got([t |-> "arr", items |-> <<>>], Tail(r))
                  ELSE ParseElements(r, <<>>)
    ELSE IF StartsWith(s, Str("true")) THEN Got([t |-> "bool", b |-> TRUE], Drop(s, 4))
    ELSE IF StartsWith(s, Str("false")) THEN Got([t |-> "bool", b |-> FALSE], Drop(s, 5))
    ELSE IF StartsWith(s, Str("null")) THEN Got([t |-> "null"], Drop(s, 4))
    ELSE IF s[1] = Ch.minus \/ IsDigit(s[1]) THEN ParseNumber(s)
    ELSE Fail

\* one value, then only white space
EndOfText(v) == IF v.ok /\ SkipWs(v.rest) = <<>> THEN v ELSE Fail

JsonText(s) == EndOfText(ParseValue(SkipWs(s)))

(***************************************************************************)
(* Integers wider than the checker's: canonical decimal digit strings      *)
(***************************************************************************)
RECURSIVE StripZeros(_)
StripZeros(d) == IF Len(d) > 1 /\ d[1] = Ch.zero THEN StripZeros(Tail(d)) ELSE d

\* a <= b, for digit strings without leading zeros
DecLeq(a, b) == Len(a) < Len(b) \/ (Len(a) = Len(b) /\ ~StrLess(b, a))

RECURSIVE DecValue(_)
DecValue(d) == IF d = <<>> THEN 0 ELSE 10 * DecValue(SubSeq(d, 1, Len(d) - 1)) + (d[Len(d)] - 48)

I64Max == Str("9223372036854775807")
I64MinAbs == Str("9223372036854775808")
U64Max == Str("18446744073709551615")

(***************************************************************************)
(* Option<T>: None is the empty sequence, Some(x) the sequence of x        *)
(***************************************************************************)
None == <<>>

Some(x) == <<x>>

(***************************************************************************)
(* #[derive(Deserialize)] struct WebAppUser (lines 28-43)                  *)
(***************************************************************************)
\* the fields in declaration order, each with the type it is read as
UserFields ==
    << [name |-> "id", kind |-> "i64"],
       [name |-> "is_bot", kind |-> "opt_bool"],
       [name |-> "first_name", kind |-> "string"],
       [name |-> "last_name", kind |-> "opt_string"],
       [name |-> "username", kind |-> "opt_string"],
       [name |-> "language_code", kind |-> "opt_string"],
       [name |-> "is_premium", kind |-> "bool_default"],
       [name |-> "added_to_attachment_menu", kind |-> "bool_default"],
       [name |-> "allows_write_to_pm", kind |-> "bool_default"],
       [name |-> "photo_url", kind |-> "opt_string"] >>

FieldNames == {UserFields[i].name : i \in 1..Len(UserFields)}

Bad == [ok |-> FALSE, val |-> None]

Good(x) == [ok |-> TRUE, val |-> x]

\* a JSON number read as i64: an integer of the 64-bit signed range; serde_json
\* reads "-0" and integers outside the 64-bit ranges as floating point
AsI64(v) ==
    IF v.t = "num" /\ v.int
       /\ IF v.neg THEN v.digits # <<Ch.zero>> /\ DecLeq(v.digits, I64MinAbs)
                   ELSE DecLeq(v.digits, I64Max)
    THEN Good([neg |-> v.neg, digits |-> v.digits])
    ELSE Bad

\* a JSON value read as the type of a field
ReadAs(kind, v) ==
    IF kind = "i64" THEN AsI64(v)
    ELSE IF kind = "string" THEN IF v.t = "str" THEN Good(v.s) ELSE Bad
    ELSE IF kind = "bool_default" THEN IF v.t = "bool" THEN Good(v.b) ELSE Bad
    ELSE IF kind = "opt_bool"
         THEN IF v.t = "null" THEN Good(None)
              ELSE IF v.t = "bool" THEN Good(Some(v.b)) ELSE Bad
    ELSE IF v.t = "null" THEN Good(None)
         ELSE IF v.t = "str" THEN Good(Some(v.s)) ELSE Bad

\* no default for a field the object does not name
MissingIsError(kind) == Bad

\* a field the object does not name: an Option is None, a #[serde(default)]
\* bool is false, any other field is an error
MissingInMap(kind) ==
    IF kind \in {"opt_bool", "opt_string"} THEN Good(None)
    ELSE IF kind = "bool_default" THEN Good(FALSE)
    ELSE Bad

\* visit_map: unknown keys are skipped, a field named twice is an error
FieldFromMap(members, f) ==
    LET named == SelectSeq(members, LAMBDA m : m.k = Str(f.name))
    IN  IF Len(named) > 1 THEN Bad
        ELSE IF Len(named) = 0 THEN MissingInMap(f.kind)
        ELSE ReadAs(f.kind, named[1].v)

\* visit_seq: the fields by position; an array that ends early defaults only
\* the #[serde(default)] fields, and elements after the last field are an error
FieldFromSeq(items, i) ==
    IF i > Len(items)
    THEN IF UserFields[i].kind = "bool_default" THEN Good(FALSE) ELSE Bad
    ELSE ReadAs(UserFields[i].kind, items[i])

UserOf(read) ==
    IF \A i \in 1..Len(UserFields) : read[i].ok
    THEN Good([n \in FieldNames |->
                 read[CHOOSE i \in 1..Len(UserFields) : UserFields[i].name = n].val])
    ELSE Bad

\* deserialize_struct: an object is read by visit_map, an array by visit_seq
UserFromJson(j) ==
    IF ~j.ok THEN Bad
    ELSE IF j.val.t = "obj"
         THEN UserOf([i \in 1..Len(UserFields) |->
                        FieldFromMap(j.val.members, UserFields[i])])
    ELSE IF j.val.t = "arr" /\ Len(j.val.items) <= Len(UserFields)
         THEN UserOf([i \in 1..Len(UserFields) |-> FieldFromSeq(j.val.items, i)])
    ELSE Bad

\* serde_json::from_str::<WebAppUser>(text)
DeserializeUser(text) == UserFromJson(JsonText(text))

(***************************************************************************)
(* str::parse::<u64>: an optional '+', then decimal digits of a value that *)
(* fits 64 bits                                                            *)
(***************************************************************************)
\* digits of any length
AnyDigits(body) ==
    IF body # <<>> /\ (\A i \in 1..Len(body) : IsDigit(body[i]))
    THEN Good(StripZeros(body))
    ELSE Bad

U64Digits(body) ==
    IF body # <<>> /\ (\A i \in 1..Len(body) : IsDigit(body[i]))
       /\ DecLeq(StripZeros(body), U64Max)
    THEN Good(StripZeros(body))
    ELSE Bad

ParseU64(s) == U64Digits(IF Len(s) > 1 /\ s[1] = Ch.plus THEN Tail(s) ELSE s)

(***************************************************************************)
(* WebAppInitData::new (lines 46-83)                                       *)
(***************************************************************************)
Err(e, f) == [kind |-> "Err", err |-> e, field |-> f]

\* Option<Result<WebAppUser>>.transpose()
Transpose(u) == IF u.ok THEN Good(Some(u.val)) ELSE Bad

\* decoded.remove(key).map(|x| serde_json::from_str(&x)).transpose()
OptUser(decoded, key) ==
    IF MapHas(decoded, key) THEN Transpose(DeserializeUser(MapGet(decoded, key)))
    ELSE Good(None)

\* a record that drops the receiver
RecordWithoutReceiver(user, receiver, auth_date) ==
    IF ~auth_date.ok THEN Err("InvalidNumericField", "auth_date")
    ELSE [kind |-> "Ok", user |-> user, receiver |-> None, auth_date |-> auth_date.val]

\* lines 77-82: auth_date, then the record
WithAuthDate(user, receiver, auth_date) ==
    IF ~auth_date.ok THEN Err("InvalidNumericField", "auth_date")
    ELSE [kind |-> "Ok", user |-> user, receiver |-> receiver, auth_date |-> auth_date.val]

\* lines 72-79: receiver, then the presence of auth_date
WithReceiver(decoded, user, receiver) ==
    IF ~receiver.ok THEN Err("InvalidJson", "receiver")
    ELSE IF ~MapHas(decoded, K_auth_date) THEN Err("MissingField", "auth_date")
    ELSE WithAuthDate(user, receiver.val, ParseU64(MapGet(decoded, K_auth_date)))

\* receiver looked at before user
ReceiverBeforeUser(decoded, user) ==
    IF ~OptUser(decoded, K_receiver).ok THEN Err("InvalidJson", "receiver")
    ELSE IF ~user.ok THEN Err("InvalidJson", "user")
    ELSE WithReceiver(decoded, user.val, OptUser(decoded, K_receiver))

\* lines 67-71: user
WithUser(decoded, user) ==
    IF ~user.ok THEN Err("InvalidJson", "user")
    ELSE WithReceiver(decoded, user.val, OptUser(decoded, K_receiver))

\* lines 66-82: the struct expression, its fields evaluated in order
DecodeFields(decoded) == WithUser(decoded, OptUser(decoded, K_user))

\* a comparison of the lengths only
SameLength(tok, data_check_string, hash) ==
    Len(hex(ActualHash(tok, data_check_string))) = Len(hash)

\* lines 60-64
HashMatches(tok, data_check_string, hash) ==
    hex(ActualHash(tok, data_check_string)) = hash

\* lines 60-83, with the locals of new when it returns
Authenticate(tok, hash, decoded, data_check_string) ==
    [ret |-> IF HashMatches(tok, data_check_string, hash)
             THEN DecodeFields(decoded)
             ELSE Err("InvalidHash", ""),
     hash |-> Some(hash), data_check_string |-> Some(data_check_string)]

\* lines 50-58
Canonicalize(tok, hash, decoded) == Authenticate(tok, hash, decoded, DataCheckString(decoded))

\* line 48
RemoveHash(tok, collected) ==
    IF MapHas(collected, K_hash)
    THEN Canonicalize(tok, MapGet(collected, K_hash), MapRemove(collected, K_hash))
    ELSE [ret |-> Err("MissingField", "hash"), hash |-> None, data_check_string |-> None]

\* line 47, then the rest of new
NewLocals(tok, rawb) == RemoveHash(tok, MapCollect(FormParse(rawb)))

New(tok, rawb) == NewLocals(tok, rawb).ret

(***************************************************************************)
(* WebAppInitData::elapsed_since_auth (lines 93-100)                       *)
(***************************************************************************)
MaxClock == 2
SubSec == 2
MaxPairs == 2

\* a difference that stops at zero
SaturatingSub(now, auth_date) ==
    IF Len(auth_date) <= 9 /\ DecValue(auth_date) <= now
    THEN Some(now - DecValue(auth_date))
    ELSE Some(0)

\* now.checked_sub(auth_date); the clocks of the model stay below 10^9 seconds,
\* so an auth_date of ten digits or more is greater than now
CheckedSub(now, auth_date) ==
    IF Len(auth_date) <= 9 /\ DecValue(auth_date) <= now
    THEN Some(now - DecValue(auth_date))
    ELSE None

\* SystemTime::now().duration_since(UNIX_EPOCH).ok()?.as_secs(), then the
\* difference as a Duration of whole seconds
Elapsed(rec, clk) ==
    IF clk < 0 THEN None ELSE CheckedSub(clk \div SubSec, rec.auth_date)

(***************************************************************************)
(* The host's side, as Telegram documents it: the signature of a payload   *)
(* is the lower-case hexadecimal HMAC-SHA256 of its data-check string (the *)
(* "key=value" lines of the fields, sorted by key, joined by line feeds)   *)
(* under the HMAC-SHA256 of the bot token keyed with "WebAppData".         *)
(* These definitions are what the properties below are stated with; of     *)
(* the operators of new above they use the query-string decoder and the    *)
(* keyed hash only.                                                        *)
(***************************************************************************)
\* a before b in the lexicographic order of bytes
LexLess(a, b) ==
    \E i \in 1..Len(b) :
        /\ \A j \in 1..(i - 1) : j <= Len(a) /\ a[j] = b[j]
        /\ i > Len(a) \/ a[i] < b[i]

KeysOf(pairs) == {pairs[i].k : i \in 1..Len(pairs)}

Last(S) == CHOOSE i \in S : \A j \in S : j <= i

First(S) == CHOOSE i \in S : \A j \in S : i <= j

\* the value of the last, and of the first, pair with the key
LastValue(pairs, key) == pairs[Last({i \in 1..Len(pairs) : pairs[i].k = key})].v

FirstValue(pairs, key) == pairs[First({i \in 1..Len(pairs) : pairs[i].k = key})].v

\* the elements of a set of strings in ascending order
Ascending(S) ==
    CHOOSE q \in [1..Cardinality(S) -> S] :
        \A i, j \in 1..Cardinality(S) : i < j => LexLess(q[i], q[j])

RECURSIVE JoinNl(_)
JoinNl(lines) ==
    IF lines = <<>> THEN <<>>
    ELSE IF Len(lines) = 1 THEN lines[1]
    ELSE lines[1] \o <<Ch.nl>> \o JoinNl(Tail(lines))

Lines(keys, pairs, first) ==
    [i \in 1..Len(keys) |->
       keys[i] \o <<Ch.eq>>
       \o (IF first THEN FirstValue(pairs, keys[i]) ELSE LastValue(pairs, keys[i]))]

\* the data-check string of decoded pairs: one line per key other than hash,
\* with the value of the key's last pair
SigningString(pairs) == JoinNl(Lines(Ascending(KeysOf(pairs) \ {K_hash}), pairs, FALSE))

\* the same with the value of the key's first pair
SigningStringFirst(pairs) == JoinNl(Lines(Ascending(KeysOf(pairs) \ {K_hash}), pairs, TRUE))

HexDigits == Str("0123456789abcdef")

LowerHex(bytes) ==
    [i \in 1..2 * Len(bytes) |->
       HexDigits[1 + (IF i % 2 = 1 THEN bytes[(i + 1) \div 2] \div 16
                      ELSE bytes[i \div 2] % 16)]]

\* key "WebAppData", message the token; then key that secret, message the string
TelegramSign(tok, signing) == LowerHex(HMAC(signing, HMAC(tok, WebAppData)))

\* key the token, message "WebAppData"; then key that secret, message the string
RolesSwappedSign(tok, signing) == LowerHex(HMAC(signing, HMAC(WebAppData, tok)))

(***************************************************************************)
(* Payloads                                                                *)
(***************************************************************************)
RECURSIVE JoinAmp(_)
JoinAmp(pairs) ==
    IF pairs = <<>> THEN <<>>
    ELSE IF Len(pairs) = 1 THEN pairs[1]
    ELSE pairs[1] \o <<Ch.amp>> \o JoinAmp(Tail(pairs))

\* the pieces of a payload between its "&"
RECURSIVE SplitAmp(_)
SplitAmp(rawb) ==
    IF IndexOf(rawb, Ch.amp) = 0 THEN <<rawb>>
    ELSE <<SubSeq(rawb, 1, IndexOf(rawb, Ch.amp) - 1)>>
         \o SplitAmp(Drop(rawb, IndexOf(rawb, Ch.amp)))

Upper(s) == [i \in 1..Len(s) |-> IF s[i] >= 97 /\ s[i] <= 122 THEN s[i] - 32 ELSE s[i]]

\* the signature the host computes for the pairs under a token
HostSign(tok, pairs) == TelegramSign(tok, SigningString(FormParse(JoinAmp(pairs))))

Tokens == {Str("123:AAH"), Str("7:zk")}

OtherToken(tok) == CHOOSE t \in Tokens : t # tok

HashModes ==
    {"good", "absent", "upper", "short", "long", "flip", "nonhex", "empty",
     "other_token", "roles_swapped", "first_value"}

\* a signature with its last digit changed
Flip(good) ==
    SubSeq(good, 1, Len(good) - 1)
    \o <<IF good[Len(good)] = Ch.zero THEN Code("1") ELSE Ch.zero>>

\* a right signature, kept or spoilt
Garble(mode, good) ==
    IF mode = "good" THEN good
    ELSE IF mode = "upper" THEN Upper(good)
    ELSE IF mode = "short" THEN SubSeq(good, 1, Len(good) - 1)
    ELSE IF mode = "long" THEN good \o Str("0")
    ELSE Flip(good)

\* the value of the hash pair, for each way of getting it right or wrong
HashValue(mode, tok, pairs) ==
    IF mode = "nonhex" THEN Str("xyz")
    ELSE IF mode = "empty" THEN <<>>
    ELSE IF mode = "other_token" THEN HostSign(OtherToken(tok), pairs)
    ELSE IF mode = "roles_swapped"
         THEN RolesSwappedSign(tok, SigningString(FormParse(JoinAmp(pairs))))
    ELSE IF mode = "first_value"
         THEN TelegramSign(tok, SigningStringFirst(FormParse(JoinAmp(pairs))))
    ELSE Garble(mode, HostSign(tok, pairs))

Field(key, text) == key \o <<Ch.eq>> \o text

WithHash(mode, tok, pairs) ==
    IF mode = "absent" THEN JoinAmp(pairs)
    ELSE JoinAmp(Append(pairs, Field(K_hash, HashValue(mode, tok, pairs))))

UserA == Str("{\"id\":1,\"first_name\":\"A\"}")

UserTexts ==
    { UserA,
      Str("%7B%22id%22%3A1%2C%22first_name%22%3A%22A%22%7D"),
      Str("{\"id\":-7,\"first_name\":\"Bo\",\"is_bot\":false,\"is_premium\":true,\"zz\":[1,{}]}"),
      Str("{\"first_name\":\"A\",\"id\":2,\"is_bot\":null,\"username\":\"u\",\"allows_write_to_pm\":true}"),
      Str("[3,true,\"C\",null,\"n\",null,false,true,false,null]"),
      Str("{\"id\":1}"),
      Str("{\"first_name\":\"A\"}"),
      Str("{\"id\":\"1\",\"first_name\":\"A\"}"),
      Str("{\"id\":1,\"first_name\":\"A\",\"is_premium\":null}"),
      Str("{\"id\":1,\"first_name\":\"A\",\"is_bot\":0}"),
      Str("{\"id\":9223372036854775808,\"first_name\":\"A\"}"),
      Str("[3,true,\"C\"]"),
      Str("{\"id\":1,\"first_name\":\"A\""),
      Str("7"),
      <<>> }

ReceiverTexts ==
    { UserA, Str("{\"id\":4,\"first_name\":\"R\",\"is_bot\":true}"), Str("{}") }

\* "+5" decodes to " 5": a "+" must be sent as "%2B"
AuthTexts ==
    { Str("0"), Str("1"), Str("2"), Str("%2B1"), Str("002"), Str("1700000000"),
      Str("18446744073709551615"), Str("18446744073709551616"),
      Str("-1"), Str("-0"), Str("+5"), Str("1.0"), Str("x"), <<>> }

Opt(S) == {None} \cup {Some(t) : t \in S}

\* the fields of a payload: each of auth_date, user, receiver absent (None) or
\* present with a text (Some), and the way the hash is written
Scenarios ==
    \* every auth_date, with and without a user
    { [auth |-> a, user |-> u, receiver |-> None, mode |-> m] :
        a \in Opt(AuthTexts), u \in {None, Some(UserA)}, m \in {"good", "flip"} }
    \cup
    \* every user and receiver
    { [auth |-> a, user |-> u, receiver |-> r, mode |-> m] :
        a \in {None, Some(Str("1")), Some(Str("x"))},
        u \in Opt(UserTexts), r \in Opt(ReceiverTexts), m \in {"good", "flip", "absent"} }
    \cup
    \* every hash
    { [auth |-> Some(Str("1")), user |-> u, receiver |-> None, mode |-> m] :
        u \in {None, Some(UserA), Some(Str("{"))}, m \in HashModes \ {"first_value"} }

OptField(key, opt) == IF opt = None THEN <<>> ELSE <<Field(key, opt[1])>>

ScenarioPairs(sc) ==
    OptField(K_auth_date, sc.auth) \o OptField(K_user, sc.user)
    \o OptField(K_receiver, sc.receiver)

\* the payloads of the clock's specification: a signed auth_date alone
ClockAuthTexts ==
    { Str("0"), Str("1"), Str("2"), Str("%2B1"), Str("002"), Str("1700000000"),
      Str("18446744073709551615") }

\* the raw pairs the payloads of the canonicalisation's specification are made
\* of: keys out of order, a key twice ("%61" is "a"), a key that is a prefix
\* of another, a line feed in a value
CanonPool ==
    { Str("b=2"), Str("a=1"), Str("%61=3"), Str("ab=x%0Ay"),
      Str("auth_date=1"), Str("auth_date=2") }

Seqs(S, n) == UNION {[1..k -> S] : k \in 0..n}

CanonModes == {"good", "first_value", "flip", "absent", "hash_twice"}

\* "hash_twice": a wrong hash pair first and the right one last
CanonPayload(mode, tok, pairs) ==
    IF mode = "hash_twice"
    THEN WithHash("good", tok, <<Field(K_hash, Str("00"))>> \o pairs)
    ELSE WithHash(mode, tok, pairs)

\* the signed payloads a character is changed in: a "+" and a lower-case
\* escape, two keys, a key twice, a user
TamperBase ==
    { <<Str("auth_date=1"), Str("q=x+y%2fz")>>,
      <<Str("a=1"), Str("auth_date=1")>>,
      <<Str("auth_date=2"), Str("auth_date=1")>>,
      <<Field(K_user, UserA), Str("auth_date=1")>> }

TamperChars ==
    { Code("x"), Code("F"), Code("9"), Ch.plus, Ch.sp, Ch.amp, Ch.eq, Ch.nl }

\* the arrangements of n things
Perms(n) == {f \in [1..n -> 1..n] : \A i, j \in 1..n : f[i] = f[j] => i = j}

Permuted(pieces, f) == [i \in 1..Len(pieces) |-> pieces[f[i]]]

\* the decoded key of a raw pair
KeyOfPiece(piece) == IF FormParse(piece) = <<>> THEN None ELSE Some(FormParse(piece)[1].k)

\* the raw pairs that no later pair of the same key follows
KeepLast(pieces) ==
    SelectSeq([i \in 1..Len(pieces) |->
                 [piece |-> pieces[i],
                  last |-> \A j \in (i + 1)..Len(pieces) :
                              KeyOfPiece(pieces[j]) # KeyOfPiece(pieces[i])]],
              LAMBDA e : e.last)

Pieces(entries) == [i \in 1..Len(entries) |-> entries[i].piece]

(***************************************************************************)
(* The state machine                                                       *)
(***************************************************************************)
Start ==
    /\ token \in Tokens
    /\ pc = "start"
    /\ result = None
    /\ locals = None
    /\ clock = 0
    /\ calls = <<>>
    /\ probe = None

\* new(token, raw) is called and returns
CallNew ==
    /\ pc = "start"
    /\ \E l \in {NewLocals(token, raw)} :
         /\ result' = l.ret
         /\ locals' = [hash |-> l.hash, data_check_string |-> l.data_check_string]
    /\ pc' = "returned"
    /\ UNCHANGED <<token, raw, clock, calls, probe>>

Built == pc = "returned" /\ result.kind = "Ok"

\* time passes
Tick ==
    /\ Built
    /\ clock < (MaxClock + 1) * SubSec - 1
    /\ clock' = clock + 1
    /\ UNCHANGED <<token, raw, pc, result, locals, calls, probe>>

\* the system clock is set back
ClockBack ==
    /\ Built
    /\ clock > -1
    /\ clock' = clock - 1
    /\ UNCHANGED <<token, raw, pc, result, locals, calls, probe>>

LastTwo(s) == IF Len(s) > 2 THEN Tail(s) ELSE s

\* elapsed_since_auth() is called on the record
ElapsedSinceAuth ==
    /\ Built
    /\ calls' = LastTwo(Append(calls, [now |-> clock, ret |-> Elapsed(result, clock)]))
    /\ UNCHANGED <<token, raw, pc, result, locals, clock, probe>>

\* a second call of new, with the same token and another payload
Probe(kind, at, raw2, l) ==
    Some([kind |-> kind, at |-> at, raw |-> raw2, ret |-> l.ret,
          hash |-> l.hash, data_check_string |-> l.data_check_string])

CallNewOn(kind, at, raw2) ==
    /\ \E l \in {NewLocals(token, raw2)} : probe' = Probe(kind, at, raw2, l)
    /\ UNCHANGED <<token, raw, pc, result, locals, clock, calls>>

\* new is called with the pairs of the payload in another order
Reorder ==
    /\ pc = "returned"
    /\ probe = None
    /\ \E pieces \in {SplitAmp(raw)} :
         \E f \in Perms(Len(pieces)) : CallNewOn("reorder", 0, JoinAmp(Permuted(pieces, f)))

\* new is called with the last pair of every key only
LastOnly ==
    /\ pc = "returned"
    /\ probe = None
    /\ CallNewOn("last_only", 0, JoinAmp(Pieces(KeepLast(SplitAmp(raw)))))

\* new is called with one character of the payload replaced
Tamper ==
    /\ pc = "returned"
    /\ probe = None
    /\ \E i \in 1..Len(raw) :
         \E c \in TamperChars \ {raw[i]} :
            CallNewOn("tamper", i, [raw EXCEPT ![i] = c])

\* the life of a record: new, then elapsed_since_auth as the clock moves
Init ==
    /\ Start
    /\ \E a \in ClockAuthTexts : raw = WithHash("good", token, <<Field(K_auth_date, a)>>)

Next == CallNew \/ Tick \/ ClockBack \/ ElapsedSinceAuth

Spec == Init /\ [][Next]_vars

\* new on every payload of Scenarios
InitNew ==
    /\ Start
    /\ \E sc \in Scenarios : raw = WithHash(sc.mode, token, ScenarioPairs(sc))

NextNew == CallNew

SpecNew == InitNew /\ [][NextNew]_vars

\* new on sequences of raw pairs, then on their rearrangements
InitCanon ==
    /\ Start
    /\ \E pairs \in Seqs(CanonPool, MaxPairs) :
         \E mode \in CanonModes : raw = CanonPayload(mode, token, pairs)

NextCanon == CallNew \/ Reorder \/ LastOnly

SpecCanon == InitCanon /\ [][NextCanon]_vars

\* new on signed payloads, then on the same with one character changed
InitTamper ==
    /\ Start
    /\ \E pairs \in TamperBase : raw = WithHash("good", token, pairs)

NextTamper == CallNew \/ Tamper

SpecTamper == InitTamper /\ [][NextTamper]_vars

(***************************************************************************)
(* What the properties speak of                                            *)
(***************************************************************************)
Returned == pc = "returned"

\* the decoded pairs of a payload
Decoded(rawb) == FormParse(rawb)

Has(pairs, key) == key \in KeysOf(pairs)

\* the value of a key the pairs have
Value(pairs, key) == LastValue(pairs, key)

ValueIs(pairs, key, text) == Has(pairs, key) /\ Value(pairs, key) = text

\* the payload carries the signature of its other fields under the token
Signed(tok, pairs) ==
    ValueIs(pairs, K_hash, TelegramSign(tok, SigningString(pairs)))

InvalidHash == Err("InvalidHash", "")

\* a user written out
User(id, first_name, is_bot, username, is_premium, added, allows) ==
    [id |-> id, is_bot |-> is_bot, first_name |-> Str(first_name),
     last_name |-> None, username |-> username, language_code |-> None,
     is_premium |-> is_premium, added_to_attachment_menu |-> added,
     allows_write_to_pm |-> allows, photo_url |-> None]

Plus(digits) == [neg |-> FALSE, digits |-> Str(digits)]

Minus(digits) == [neg |-> TRUE, digits |-> Str(digits)]

\* the texts of UserTexts and ReceiverTexts that are a user, with the user
\* each of them is
KnownUsers ==
    { [text |-> UserA,
       user |-> User(Plus("1"), "A", None, None, FALSE, FALSE, FALSE)],
      [text |-> Str("{\"id\":-7,\"first_name\":\"Bo\",\"is_bot\":false,\"is_premium\":true,\"zz\":[1,{}]}"),
       user |-> User(Minus("7"), "Bo", Some(FALSE), None, TRUE, FALSE, FALSE)],
      [text |-> Str("{\"first_name\":\"A\",\"id\":2,\"is_bot\":null,\"username\":\"u\",\"allows_write_to_pm\":true}"),
       user |-> User(Plus("2"), "A", None, Some(Str("u")), FALSE, FALSE, TRUE)],
      [text |-> Str("[3,true,\"C\",null,\"n\",null,false,true,false,null]"),
       user |-> User(Plus("3"), "C", Some(TRUE), Some(Str("n")), FALSE, TRUE, FALSE)],
      [text |-> Str("{\"id\":4,\"first_name\":\"R\",\"is_bot\":true}"),
       user |-> User(Plus("4"), "R", Some(TRUE), None, FALSE, FALSE, FALSE)] }

\* the user a decoded text is, if it is one
ExpectedUser(text) ==
    IF \E e \in KnownUsers : e.text = text
    THEN Some((CHOOSE e \in KnownUsers : e.text = text).user)
    ELSE None

\* the field of the payload: absent, a user, or not a user
FieldAbsent(pairs, key) == ~Has(pairs, key)

FieldIsUser(pairs, key) == Has(pairs, key) /\ ExpectedUser(Value(pairs, key)) # None

FieldNotUser(pairs, key) == Has(pairs, key) /\ ExpectedUser(Value(pairs, key)) = None

\* what the record holds for the field
FieldHeld(pairs, key) ==
    IF Has(pairs, key) THEN ExpectedUser(Value(pairs, key)) ELSE None

\* an optional "+" and then one decimal digit or more
IsDecimal(text) ==
    LET body == IF text # <<>> /\ text[1] = Ch.plus THEN Tail(text) ELSE text
    IN  body # <<>> /\ \A i \in 1..Len(body) : IsDigit(body[i])

\* the digits of its value, without leading zeros
DecimalValue(text) ==
    StripZeros(IF text[1] = Ch.plus THEN Tail(text) ELSE text)

FitsU64(text) == IsDecimal(text) /\ DecLeq(DecimalValue(text), U64Max)

(***************************************************************************)
(* Authentication                                                          *)
(***************************************************************************)
\* C1, as stated: when a payload has a hash, new passes authentication exactly
\* when the hash is the lower-case hex of HMAC(key = secret, message = signing
\* string) with secret = HMAC(key = token, message = "WebAppData"), and returns
\* InvalidHash for every other hash.
C1_SecretKeyedByToken ==
    Returned =>
        \A pairs \in {Decoded(raw)} :
            Has(pairs, K_hash) =>
                (result # InvalidHash
                 <=> Value(pairs, K_hash) = RolesSwappedSign(token, SigningString(pairs)))

\* C1, amended: when a payload has a hash, new passes authentication exactly
\* when the hash is the lower-case hex of HMAC(key = secret, message = signing
\* string) with secret = HMAC(key = "WebAppData", message = token), and returns
\* InvalidHash for every other hash (wrong length, upper case, not hex, the
\* hash of another token).
C1_SecretKeyedByWebAppData ==
    Returned =>
        \A pairs \in {Decoded(raw)} :
            Has(pairs, K_hash) =>
                (result # InvalidHash
                 <=> Value(pairs, K_hash) = TelegramSign(token, SigningString(pairs)))

\* C1: new has accepted the hash of a payload that has a user
C1_Accepted ==
    /\ Returned
    /\ result.kind = "Ok"
    /\ \E pairs \in {Decoded(raw)} : Has(pairs, K_user) /\ Signed(token, pairs)

(***************************************************************************)
(* The order of the checks                                                 *)
(***************************************************************************)
Defect(is, err) == [is |-> is, err |-> err]

\* what may be wrong with a payload, in the order new looks for it
Defects(tok, pairs) ==
    << Defect(~Has(pairs, K_hash), Err("MissingField", "hash")),
       Defect(Has(pairs, K_hash) /\ ~Signed(tok, pairs), InvalidHash),
       Defect(FieldNotUser(pairs, K_user), Err("InvalidJson", "user")),
       Defect(FieldNotUser(pairs, K_receiver), Err("InvalidJson", "receiver")),
       Defect(~Has(pairs, K_auth_date), Err("MissingField", "auth_date")),
       Defect(Has(pairs, K_auth_date) /\ ~FitsU64(Value(pairs, K_auth_date)),
              Err("InvalidNumericField", "auth_date")) >>

Present(defects) == {i \in 1..Len(defects) : defects[i].is}

\* C3: new reports the first thing wrong in the order: hash missing, hash not
\* matching, user not decoding, receiver not decoding, auth_date missing,
\* auth_date not parsing; a hash that does not match gives InvalidHash whatever
\* else is wrong, and new succeeds when nothing is.
C3_FirstDefect ==
    Returned =>
        \A defects \in {Defects(token, Decoded(raw))} :
            IF Present(defects) = {}
            THEN result.kind = "Ok"
            ELSE result = defects[First(Present(defects))].err

\* C3: new has returned InvalidHash for a payload with a wrong hash, a user and
\* a receiver that do not decode, and no auth_date
C3_ManyDefects ==
    /\ Returned
    /\ result = InvalidHash
    /\ {2, 3, 4, 5} \subseteq Present(Defects(token, Decoded(raw)))

(***************************************************************************)
(* The record of a signed payload                                          *)
(***************************************************************************)
\* the record with the fields of the payload
RecordOf(pairs) ==
    [kind |-> "Ok", user |-> FieldHeld(pairs, K_user),
     receiver |-> FieldHeld(pairs, K_receiver),
     auth_date |-> DecimalValue(Value(pairs, K_auth_date))]

\* C6, as stated: for every payload that carries the signature of its other
\* pairs under the token, new succeeds and the record holds the fields of the
\* payload.
C6_EverySignedPayload ==
    Returned =>
        \A pairs \in {Decoded(raw)} :
            Signed(token, pairs) =>
                /\ result.kind = "Ok"
                /\ result.user = FieldHeld(pairs, K_user)
                /\ result.receiver = FieldHeld(pairs, K_receiver)

\* C6, amended: for every payload that carries the signature of its other
\* pairs under the token, has an auth_date that is a decimal number of 64 bits
\* and has no user and no receiver or ones that decode, new succeeds and the
\* record holds the user, the receiver and the auth_date of the payload.
C6_SignedAndWellFormed ==
    Returned =>
        \A pairs \in {Decoded(raw)} :
            (/\ Signed(token, pairs)
             /\ Has(pairs, K_auth_date) /\ FitsU64(Value(pairs, K_auth_date))
             /\ ~FieldNotUser(pairs, K_user)
             /\ ~FieldNotUser(pairs, K_receiver)) =>
                result = RecordOf(pairs)

\* C6: new has built a record with a user and another receiver
C6_UserAndReceiver ==
    /\ Returned
    /\ result.kind = "Ok"
    /\ result.user # None
    /\ result.receiver # None
    /\ result.user # result.receiver
    /\ Signed(token, Decoded(raw))

(***************************************************************************)
(* auth_date                                                               *)
(***************************************************************************)
\* the payload is signed and its user and receiver are no obstacle
OtherwiseValid(tok, pairs) ==
    /\ Signed(tok, pairs)
    /\ ~FieldNotUser(pairs, K_user)
    /\ ~FieldNotUser(pairs, K_receiver)

\* C7, as stated: in an otherwise valid payload, a missing auth_date gives
\* MissingField("auth_date"), a value that is not a non-negative integer gives
\* InvalidNumericField("auth_date"), and every non-negative integer is accepted
\* and stored with its value.
C7_EveryNonNegativeInteger ==
    Returned =>
        \A pairs \in {Decoded(raw)} :
            OtherwiseValid(token, pairs) =>
                IF ~Has(pairs, K_auth_date)
                THEN result = Err("MissingField", "auth_date")
                ELSE IF ~IsDecimal(Value(pairs, K_auth_date))
                     THEN result = Err("InvalidNumericField", "auth_date")
                ELSE /\ result.kind = "Ok"
                     /\ result.auth_date = DecimalValue(Value(pairs, K_auth_date))

\* C7, amended: in an otherwise valid payload, a missing auth_date gives
\* MissingField("auth_date"); a value that is an optional "+" and decimal
\* digits of a number up to 2^64 - 1 is accepted and stored with its value;
\* every other value (a sign "-", a fraction, an empty text, a number of
\* 2^64 or more) gives InvalidNumericField("auth_date").
C7_UpTo64Bits ==
    Returned =>
        \A pairs \in {Decoded(raw)} :
            OtherwiseValid(token, pairs) =>
                IF ~Has(pairs, K_auth_date)
                THEN result = Err("MissingField", "auth_date")
                ELSE IF ~FitsU64(Value(pairs, K_auth_date))
                     THEN result = Err("InvalidNumericField", "auth_date")
                ELSE /\ result.kind = "Ok"
                     /\ result.auth_date = DecimalValue(Value(pairs, K_auth_date))

\* C7: new has stored the greatest auth_date of 64 bits
C7_GreatestStored ==
    /\ Returned
    /\ result.kind = "Ok"
    /\ result.auth_date = U64Max
    /\ ValueIs(Decoded(raw), K_auth_date, U64Max)

(***************************************************************************)
(* user and receiver                                                       *)
(***************************************************************************)
\* C8: in a signed payload, a user or receiver that is absent never fails and
\* is None in the record; one that decodes (id and first_name with the right
\* types, absent booleans false, an absent is_bot None) never fails and is
\* that user in the record; any other gives InvalidJson of the field - of
\* receiver when user is no obstacle.
C8_OptionalUsers ==
    Returned =>
        \A pairs \in {Decoded(raw)} :
            Signed(token, pairs) =>
                /\ FieldNotUser(pairs, K_user) => result = Err("InvalidJson", "user")
                /\ ~FieldNotUser(pairs, K_user) =>
                     /\ result # Err("InvalidJson", "user")
                     /\ FieldNotUser(pairs, K_receiver)
                          => result = Err("InvalidJson", "receiver")
                     /\ ~FieldNotUser(pairs, K_receiver)
                          => result # Err("InvalidJson", "receiver")
                /\ result.kind = "Ok" =>
                     /\ result.user = FieldHeld(pairs, K_user)
                     /\ result.receiver = FieldHeld(pairs, K_receiver)

\* C8: new has built a record with no receiver and a user whose is_bot is
\* absent and whose absent booleans are false
C8_Defaults ==
    /\ Returned
    /\ result.kind = "Ok"
    /\ result.receiver = None
    /\ result.user # None
    /\ result.user[1].is_bot = None
    /\ result.user[1].is_premium = FALSE
    /\ \E pairs \in {Decoded(raw)} :
         FieldAbsent(pairs, K_receiver) /\ ValueIs(pairs, K_user, UserA)

(***************************************************************************)
(* elapsed_since_auth                                                      *)
(***************************************************************************)
\* the whole seconds since the epoch at a clock reading not before it
Seconds(now) == now \div SubSec

\* auth_date is later than the second; the clocks stay below 10^9 seconds
Later(auth_date, secs) == Len(auth_date) > 9 \/ DecValue(auth_date) > secs

\* what a call at a clock reading gives for a record
ElapsedAt(rec, now) ==
    IF now < 0 \/ Later(rec.auth_date, Seconds(now)) THEN None
    ELSE Some(Seconds(now) - DecValue(rec.auth_date))

\* C9: a call of elapsed_since_auth gives none when the clock is before the
\* epoch or auth_date is later than the clock, and otherwise the whole seconds
\* from auth_date to the clock; of two calls in a row of which the first gave
\* a duration and between which the clock did not go back, the second gives a
\* duration no smaller; the call leaves the record as it was.
C9_Elapsed ==
    /\ [](Built =>
            /\ \A i \in 1..Len(calls) : calls[i].ret = ElapsedAt(result, calls[i].now)
            /\ (Len(calls) = 2 /\ calls[1].ret # None /\ calls[1].now <= calls[2].now)
                 => (calls[2].ret # None /\ calls[2].ret[1] >= calls[1].ret[1]))
    /\ [][calls' # calls => (result' = result /\ raw' = raw /\ token' = token)]_vars

\* C9: two calls have given none and then a duration of a second or more
C9_NoneThenSeconds ==
    /\ Built
    /\ Len(calls) = 2
    /\ calls[1].ret = None
    /\ calls[2].ret # None
    /\ calls[2].ret[1] >= 1
    /\ result.auth_date # Str("0")

(***************************************************************************)
(* The signing string                                                      *)
(***************************************************************************)
NoHash(pairs) == SelectSeq(pairs, LAMBDA e : e.k # K_hash)

\* C2: the string new signs is the lines "key=value" of the decoded pairs
\* other than hash, one line per key, in ascending order of the keys' bytes,
\* with one line feed between two lines and none before the first or after
\* the last; when hash is the only key the string is empty and new returns an
\* error.
C2_SigningString ==
    (Returned /\ locals.hash # None) =>
        \A pairs \in {Decoded(raw)} :
            /\ locals.data_check_string = Some(SigningString(pairs))
            /\ KeysOf(pairs) = {K_hash} =>
                 (locals.data_check_string = Some(<<>>) /\ result.kind = "Err")

\* C2: new has signed two lines whose pairs came in descending order of keys
C2_OutOfOrder ==
    /\ Returned
    /\ locals.hash # None
    /\ \E pairs \in {NoHash(Decoded(raw))} :
         /\ Len(pairs) = 2
         /\ LexLess(pairs[2].k, pairs[1].k)
         /\ locals.data_check_string
              = Some(pairs[2].k \o <<Ch.eq>> \o pairs[2].v \o <<Ch.nl>>
                     \o pairs[1].k \o <<Ch.eq>> \o pairs[1].v)

(***************************************************************************)
(* The order of the pairs                                                  *)
(***************************************************************************)
Reordered == probe # None /\ probe[1].kind = "reorder"

DistinctKeys(pairs) ==
    \A i, j \in 1..Len(pairs) : pairs[i].k = pairs[j].k => i = j

\* C5, as stated: for every sequence of pairs and every rearrangement of it,
\* new returns the same for both.
C5_EverySequence == Reordered => probe[1].ret = result

\* C5, amended: for every sequence of pairs in which no key comes twice, and
\* every rearrangement of it, new returns the same for both.
C5_DistinctKeys ==
    Reordered =>
        (DistinctKeys(Decoded(raw)) => probe[1].ret = result)

\* C5: new has built the same record from three pairs in two orders
C5_TwoOrders ==
    /\ Reordered
    /\ probe[1].raw # raw
    /\ result.kind = "Ok"
    /\ probe[1].ret = result
    /\ \E pairs \in {Decoded(raw)} : Len(pairs) = 3 /\ DistinctKeys(pairs)

(***************************************************************************)
(* A key that comes twice                                                  *)
(***************************************************************************)
LastKept == probe # None /\ probe[1].kind = "last_only"

\* C10: new returns for a payload what it returns for the payload without
\* every pair that a later pair of the same key follows, and signs the same
\* string for both: of a key that comes twice or more, only the last value is
\* signed and decoded.
C10_LastWins ==
    LastKept =>
        /\ probe[1].ret = result
        /\ probe[1].hash = locals.hash
        /\ probe[1].data_check_string = locals.data_check_string

\* C10: new has built a record with the second of two auth_date
C10_SecondOfTwo ==
    /\ LastKept
    /\ probe[1].raw # raw
    /\ result.kind = "Ok"
    /\ \E pairs \in {NoHash(Decoded(raw))} :
         /\ Len(pairs) = 2
         /\ pairs[1].k = K_auth_date /\ pairs[2].k = K_auth_date
         /\ pairs[1].v # pairs[2].v
         /\ result.auth_date = pairs[2].v

(***************************************************************************)
(* A character changed                                                     *)
(***************************************************************************)
\* where the hash pair of a payload that ends with it begins
HashStart(rawb) == Len(rawb) - Len(SplitAmp(rawb)[Len(SplitAmp(rawb))]) + 1

\* one character before the hash pair of an accepted payload was changed
Tampered ==
    /\ probe # None /\ probe[1].kind = "tamper"
    /\ result.kind = "Ok"
    /\ probe[1].at < HashStart(raw)

Count(pairs, e) == Cardinality({i \in 1..Len(pairs) : pairs[i] = e})

\* the same decoded pairs, in whatever order
SameBag(p, q) ==
    /\ Len(p) = Len(q)
    /\ \A i \in 1..Len(p) : Count(p, p[i]) = Count(q, p[i])

\* C4, as stated: after the change of any one character of an accepted
\* payload outside the hash field, other than a change that leaves the
\* decoded pairs what they were up to their order, new returns InvalidHash.
C4_EveryChange ==
    Tampered =>
        (~SameBag(Decoded(raw), Decoded(probe[1].raw)) => probe[1].ret = InvalidHash)

\* C4, amended: after the change of one character of an accepted payload
\* before its hash pair, new returns MissingField("hash") when no hash is
\* left, and otherwise InvalidHash exactly when the signing string is no
\* longer what it was; a change that leaves the signing string what it was
\* still passes authentication.
C4_SigningStringChanged ==
    Tampered =>
        \A pairs \in {Decoded(probe[1].raw)} :
            IF ~Has(pairs, K_hash) THEN probe[1].ret = Err("MissingField", "hash")
            ELSE /\ Value(pairs, K_hash) = Value(Decoded(raw), K_hash)
                 /\ probe[1].ret = InvalidHash
                      <=> SigningString(pairs) # SigningString(Decoded(raw))

\* C4: new has returned InvalidHash after a digit of a value was changed
C4_ValueChanged ==
    /\ Tampered
    /\ probe[1].ret = InvalidHash
    /\ raw[probe[1].at] = Code("1")
    /\ probe[1].raw[probe[1].at] = Code("9")
    /\ SigningString(Decoded(probe[1].raw)) # SigningString(Decoded(raw))

====
